---------------------------- MODULE Spec2Model ----------------------------
(***************************************************************************)
(* Model of generic_press_scraper.py: the orchestrator                     *)
(* scrape_press_releases (direct pagination, strategy cascade, cutoff      *)
(* filter, final dedup), http_get, the rendered fallback                   *)
(* scrape_with_selenium with its Calix load-more profile, the master       *)
(* dataset merge save_to_master, the paginator next_page_url and the       *)
(* __main__ loop over the sources; of scrape_rogers.py and                 *)
(* scrape_videotron.py the load-more loader and its direct-GET fallback;   *)
(* of scrape_telus.py the browser session; of scrape_bce.py the            *)
(* pagination loop, the archive scan and the append to the master; of      *)
(* scrape_cogeco.py the pagination loop; norm_date as from_jsonld calls    *)
(* it.                                                                     *)
(*                                                                         *)
(* A candidate record is [title, link, date]; date is the string norm_date *)
(* returned: "" when unresolved, else a canonical YYYY-MM-DD string.       *)
(***************************************************************************)
EXTENDS Integers, Sequences, FiniteSets, TLC

\* ------------------------------------------------------------------ bounds
\* Largest max_pages a run is started with.
MaxPages == 2
\* Total number of candidate records the site serves during one run.
MaxItems == 2
\* Rows handed to one save_to_master call, and rows the master may hold.
MaxRows == 2
MaxMaster == 2
\* The click budget max_clicks handed to the Calix profile (80 at line 502,
\* scaled down).
MaxClicks == 1
\* Query parameters of a listing URL handed to next_page_url, and the
\* largest page number it is called with.
MaxParams == 2
MaxPageArg == 3
\* Listing links a rendered page may show, and the largest click budget
\* max_clicks a load-more loader is started with (60 by default, scaled down).
MaxLinks == 2
MaxLmClicks == 2
\* scrape_bce: the page numbers told apart (MaxBcePage stands for itself and
\* for every later page), and the entries one block of a page may hold.
MaxBcePage == 3
MaxEntries == 2
\* Article objects one page's JSON-LD blocks hold.
MaxObjects == 2

\* --------------------------------------------------------------- constants
\* range(3) in http_get: the number of GET attempts.
HTTP_TRIES == 3
\* The year the URL test of _scrape_calix_load_more compares with.
CALIX_YEAR == 2025
\* The step next_page_url falls back to when start is 0.
DEFAULT_STEP == 16
\* scrape_bce.py: CUTOFF_YEAR.
CUTOFF_YEAR == 2025

\* The titles a candidate may carry; "" is the title of a feed entry or of
\* an embedded-metadata object that has none.
Titles == {"", "New CEO"}
Links == {"L1", "L2"}
\* The date strings a record may carry, "" being the unresolved date, and
\* the cutoffs a run may be started with.
Dates == {"", "2024-12-31", "2025-01-01"}
Cutoffs == {"2024-12-31", "2025-01-01"}
Records == [title : Titles, link : Links, date : Dates]
\* What requests.get may come back with: success, a non-200 code of the
\* success class, a client error, a server error; 0 stands for requests.get
\* raising (connection error, timeout) instead of returning a response.
Statuses == {0, 200, 204, 404, 503}
\* The sources of __main__, and what a caller may hand to save_to_master:
\* titles and links before .strip(), "" being a missing value.
Companies == {"Bell", "TELUS"}
RawTitles == {"", "New CEO", "New CEO ", "Q1 results"}
RawRows == [title : RawTitles, link : Links, date : {"2025-01-01"}]

VARIABLES
    cutoff,       \* scrape_press_releases: cutoff_dt
    max_pages,    \* scrape_press_releases: max_pages
    pc,           \* position in scrape_press_releases / scrape_with_selenium
    p,            \* loop variable of the direct pagination loop
    tries,        \* http_get: GET requests issued for the current URL
    last_status,  \* http_get: status_code of the last response (0: none yet)
    http_ret,     \* outcome of the last http_get call
    out,          \* scrape_press_releases: out
    any_found,    \* scrape_press_releases: any_found
    result,       \* value returned by scrape_press_releases
    served,       \* candidate records the site has served in this run
    requested,    \* pages requested through http_get, in order
    old_seen,     \* some fetched page's extracted items held a date < cutoff
    empty1,       \* strategies 1-3 all returned nothing for page 1
    fail1,        \* http_get raised for page 1
    failN,        \* http_get delivered no response for a page N > 1
    undated_seen, \* (title, link) of the undated records a cutoff filter was given
    calix,        \* scrape_with_selenium: "calix.com" in netloc
    sel_calls,    \* invocations of scrape_with_selenium
    driver,       \* browser session: "none", "open", "quit"
    sel_p,        \* scrape_with_selenium: loop variable p
    sel_out,      \* scrape_with_selenium: out
    sel_ret,      \* what scrape_with_selenium did: "-", "returned", "raised"
    clicks,       \* _scrape_calix_load_more: clicks
    stop,         \* _scrape_calix_load_more: stop
    max_clicks,   \* _scrape_calix_load_more: max_clicks
    all_items,    \* _scrape_calix_load_more: all_items
    location,     \* the page the Calix browser session is on
    off_listing,  \* the Calix loop read a page that is not the listing
    cascade,      \* strategies run on the current page, each with its result
    master,       \* the persisted dataset, rows in file order
    ret,          \* save_to_master: value returned by the latest call
    dup_call,     \* the latest call brought rows, all with persisted keys
    list_url,     \* next_page_url: list_url
    page,         \* next_page_url: page
    npu_ret,      \* next_page_url: outcome of the latest call
    npu_prev,     \* next_page_url: outcome of the call before it
    npu_calls,    \* next_page_url: calls made with these arguments
    lm_site,      \* which scraper runs: "rogers" or "videotron"
    since,        \* scrape_rogers / scrape_videotron: since
    use_selenium_load_more, \* scrape_rogers / scrape_videotron: the flag
    existing_links, \* scrape_rogers / scrape_videotron: existing_links
    lm_max_clicks, \* _get_listing_html_with_selenium_load_more: max_clicks
    lm_pc,        \* position in scrape_rogers / scrape_videotron
    lm_driver,    \* the loader's browser session: "none", "open", "quit"
    lm_i,         \* the loader's loop variable i
    last_count,   \* the loader's last_count
    lm_clicks,    \* clicks on the load-more control so far
    lm_obs,       \* what the latest loop iteration saw and whether it clicked
    lm_raised,    \* the loader raised
    lm_gets,      \* direct GETs of the listing issued by _http_get
    lm_status,    \* status of the latest direct GET of the listing (0: none)
    results,      \* scrape_rogers / scrape_videotron: results
    tel_pc,       \* position in scrape_telus
    tel_driver,   \* scrape_telus: the browser session
    tel_cards,    \* load_all_2025_cards: len(cards)
    bce_pc,       \* position in scrape_bce
    bce_page,     \* scrape_bce: page
    bce_status,   \* scrape_bce: resp.status_code of the latest GET (0: none)
    bce_keys,     \* scrape_bce: the (title, date) keys of all_rows
    hit_older,    \* scrape_bce: hit_older of the latest page
    bce_archive,  \* the News-archive entries of the latest page, in page order
    bce_rows,     \* extract_news_archive: rows returned for the latest page
    src,          \* __main__: index of the source being processed (0: not run)
    saved,        \* __main__: companies whose save_to_master call returned
    dateparser,   \* the module-level name dateparser is a module, not None
    jl_pc,        \* position in from_jsonld's loop over the objects
    jl_items,     \* from_jsonld: the date of each item appended so far
    nd_arg,       \* norm_date: the argument of the latest call
    nd_ret,       \* norm_date: outcome of the latest call
    cg_since,     \* scrape_cogeco: since
    cg_max_pages, \* scrape_cogeco: max_pages
    cg_existing,  \* scrape_cogeco: existing_links
    cg_pc,        \* position in scrape_cogeco
    cg_page,      \* scrape_cogeco: page
    cg_status,    \* _http_get: status of the latest GET (0: none or raised)
    cg_out,       \* scrape_cogeco: out
    pg_url,       \* scrape_press_releases: list_url, carrying start=s
    pg_p,         \* scrape_press_releases: loop variable p of line 582
    pg_offsets    \* the start offset of each URL requested so far, in order

scrape_vars == <<cutoff, max_pages, pc, p, tries, last_status, http_ret, out,
                 any_found, result, served, requested, old_seen, empty1,
                 fail1, failN, undated_seen, calix, sel_calls, driver, sel_p,
                 sel_out, sel_ret, clicks, stop, max_clicks, all_items,
                 location, off_listing,
                 cascade>>
save_vars == <<master, ret, dup_call>>
npu_vars == <<list_url, page, npu_ret, npu_prev, npu_calls>>
listing_vars == <<lm_site, since, use_selenium_load_more, existing_links,
                  lm_max_clicks, lm_pc, lm_driver, lm_i, last_count, lm_clicks,
                  lm_obs, lm_raised, lm_gets, lm_status, results>>
telus_vars == <<tel_pc, tel_driver, tel_cards>>
bce_vars == <<bce_pc, bce_page, bce_status, bce_keys, hit_older, bce_archive,
              bce_rows>>
main_vars == <<src, saved>>
jsonld_vars == <<dateparser, jl_pc, jl_items, nd_arg, nd_ret>>
cogeco_vars == <<cg_since, cg_max_pages, cg_existing, cg_pc, cg_page,
                 cg_status, cg_out>>
paging_vars == <<pg_url, pg_p, pg_offsets>>
more_vars == <<jsonld_vars, cogeco_vars, paging_vars>>
vars == <<scrape_vars, save_vars, npu_vars, listing_vars, telus_vars, bce_vars,
          main_vars, more_vars>>

\* What the steps of one function leave alone: the state of the others.
outside_scrape ==
    <<save_vars, npu_vars, listing_vars,
      telus_vars, bce_vars, main_vars, more_vars>>
outside_save ==
    <<scrape_vars, npu_vars, listing_vars,
      telus_vars, bce_vars, main_vars, more_vars>>
outside_npu ==
    <<scrape_vars, save_vars, listing_vars,
      telus_vars, bce_vars, main_vars, more_vars>>
outside_listing ==
    <<scrape_vars, save_vars, npu_vars,
      telus_vars, bce_vars, main_vars, more_vars>>
outside_telus ==
    <<scrape_vars, save_vars, npu_vars,
      listing_vars, bce_vars, main_vars, more_vars>>
outside_bce ==
    <<scrape_vars, save_vars, npu_vars,
      listing_vars, telus_vars, main_vars, more_vars>>

first_vars ==
    <<scrape_vars, save_vars, npu_vars, listing_vars,
      telus_vars, bce_vars, main_vars>>
outside_jsonld == <<first_vars, cogeco_vars, paging_vars>>
outside_cogeco == <<first_vars, jsonld_vars, paging_vars>>
outside_paging == <<first_vars, jsonld_vars, cogeco_vars>>

params == <<cutoff, max_pages>>
http_vars == <<tries, last_status, http_ret>>
loop_vars == <<p, out, any_found, requested>>
hist_vars == <<old_seen, empty1, fail1, failN, undated_seen>>
sel_vars == <<calix, sel_calls, driver, sel_p, sel_out, sel_ret>>
calix_vars == <<clicks, stop, max_clicks, all_items, location, off_listing>>

\* ----------------------------------------------------------- pure helpers
Key(r) == <<r.title, r.link>>

\* Sequences over S of length at most n.
SeqUpTo(S, n) == UNION {[1..k -> S] : k \in 0..n}

\* datetime.strptime(d, "%Y-%m-%d") for the canonical strings of Dates, as
\* the day count the resulting datetimes are ordered by.
strptime(d) ==
    CASE d = "2024-12-31" -> 739251
      [] d = "2025-01-01" -> 739252
      [] d = "2025-01-02" -> 739253

\* The cutoff test shared by keep_only_newer and the two rendered filters:
\* a record is dropped iff it has a date and that date parses to < cutoff_dt.
IsOld(it, c) == it.date # "" /\ strptime(it.date) < strptime(c)

\* Mutants of keep_only_newer: one that also drops the records without a
\* date, one that filters nothing.
keep_only_dated(items, c) ==
    SelectSeq(items, LAMBDA it : it.date # "" /\ ~IsOld(it, c))

keep_everything(items, c) == items

keep_only_newer(items, c) == SelectSeq(items, LAMBDA it : ~IsOld(it, c))

\* from_jsonld, lines 168-174, and the seen-set loops of from_html_list and
\* _scrape_calix_load_more: keep the first record of every (title, link).
RECURSIVE UniqFirstFrom(_, _)
UniqFirstFrom(acc, rest) ==
    IF rest = <<>> THEN acc
    ELSE IF \E j \in 1..Len(acc) : Key(acc[j]) = Key(Head(rest))
         THEN UniqFirstFrom(acc, Tail(rest))
         ELSE UniqFirstFrom(Append(acc, Head(rest)), Tail(rest))

UniqFirst(items) == UniqFirstFrom(<<>>, items)

\* The dict-based dedup loop: a dict keeps insertion order, a replaced value
\* keeps the position of its key.
RECURSIVE DedupFrom(_, _)
DedupFrom(acc, rest) ==
    IF rest = <<>> THEN acc
    ELSE LET i == Head(rest)
             hit == {j \in 1..Len(acc) : Key(acc[j]) = Key(i)}
         IN IF hit = {}
            THEN DedupFrom(Append(acc, i), Tail(rest))
            ELSE LET j == CHOOSE x \in hit : TRUE
                 IN IF acc[j].date = "" /\ i.date # ""
                    THEN DedupFrom([acc EXCEPT ![j] = i], Tail(rest))
                    ELSE DedupFrom(acc, Tail(rest))

\* Mutant of Dedup: the first record of a pair stays, dated or not.
DedupFirstOnly(items) == UniqFirst(items)

Dedup(items) == DedupFrom(<<>>, items)

\* scrape_press_releases, lines 608-615: the stop test after a page.
\* It reads the list the cutoff filter has already been applied to.
StopAfterPage(kept, c) ==
    \E i \in 1..Len(kept) : kept[i].date # "" /\ strptime(kept[i].date) < strptime(c)

\* from_html_list, lines 261-265: a title shorter than 4 characters or made
\* of a single word is dropped.  Every non-empty title of Titles has two
\* words and more than 3 characters.
NavTitle(t) == t \notin Titles

\* "if not title: continue" of the markup extractors (from_html_list line
\* 249, _from_html_known_js_sites, _calix_extract_from_dom): a container
\* without a title yields no item.
titled(raw) == SelectSeq(raw, LAMBDA it : it.title # "")

from_html_list(raw) == UniqFirst(SelectSeq(titled(raw), LAMBDA it : ~NavTitle(it.title)))

from_jsonld(raw) == UniqFirst(raw)

\* What one call of an extraction helper may find on the page it is given:
\* any list of records within what the site still has to serve.
Found == SeqUpTo(Records, MaxItems - served)

\* ------------------------------------------------------------------- http
\* One pass of the for loop of http_get after the response with status s,
\* when n requests had been issued before it.
http_get_step(n, s) ==
    IF s = 0 THEN "raised"                      \* requests.get raised
    ELSE IF s = 200 THEN "response"
    ELSE IF n + 1 < HTTP_TRIES THEN "retry"
    ELSE IF s >= 400 /\ s < 600 THEN "raised"   \* r.raise_for_status()
    ELSE "none"                                 \* falls off the end

\* ------------------------------------------------------------------- init
\* The locals of scrape_press_releases and of the rendered fallback before
\* the first statement runs.
ScrapeLocals ==
    /\ p = 1
    /\ tries = 0
    /\ last_status = 0
    /\ http_ret = "-"
    /\ out = <<>>
    /\ any_found = FALSE
    /\ result = <<>>
    /\ served = 0
    /\ requested = <<>>
    /\ old_seen = FALSE
    /\ empty1 = FALSE
    /\ fail1 = FALSE
    /\ failN = FALSE
    /\ undated_seen = {}
    /\ calix = FALSE
    /\ sel_calls = 0
    /\ driver = "none"
    /\ sel_p = 1
    /\ sel_out = <<>>
    /\ sel_ret = "-"
    /\ clicks = 0
    /\ stop = FALSE
    /\ max_clicks = 0
    /\ all_items = <<>>
    /\ location = "none"
    /\ off_listing = FALSE
    /\ cascade = <<>>

ScrapeInit ==
    /\ cutoff \in Cutoffs
    /\ max_pages \in 1..MaxPages
    /\ pc = "loop"
    /\ ScrapeLocals

\* scrape_press_releases is not running.
ScrapeOff ==
    /\ cutoff = "2025-01-01"
    /\ max_pages = MaxPages
    /\ pc = "off"
    /\ ScrapeLocals

SaveIdle ==
    /\ master = <<>>
    /\ ret = 0
    /\ dup_call = FALSE

\* next_page_url has not been called.
NpuIdle ==
    /\ list_url = [base |-> "https://site/news", query |-> <<>>, fragment |-> ""]
    /\ page = 2
    /\ npu_ret = [kind |-> "none", query |-> <<>>, base |-> "", fragment |-> ""]
    /\ npu_prev = npu_ret
    /\ npu_calls = 0

NoObs == [grew |-> FALSE, old |-> FALSE, control |-> FALSE, clicked |-> FALSE]

\* The locals of scrape_rogers / scrape_videotron and of the loader before
\* the first statement runs.
ListingLocals ==
    /\ lm_driver = "none"
    /\ lm_i = 0
    /\ last_count = 0
    /\ lm_clicks = 0
    /\ lm_obs = NoObs
    /\ lm_raised = FALSE
    /\ lm_gets = 0
    /\ lm_status = 0
    /\ results = <<>>

\* Neither scrape_rogers nor scrape_videotron is running.
ListingIdle ==
    /\ lm_site = "rogers"
    /\ since = "2025-01-01"
    /\ use_selenium_load_more = TRUE
    /\ existing_links = {}
    /\ lm_max_clicks = 0
    /\ lm_pc = "off"
    /\ ListingLocals

\* scrape_telus is not running.
TelusIdle ==
    /\ tel_pc = "off"
    /\ tel_driver = "none"
    /\ tel_cards = 0

\* The locals of scrape_bce before its loop.
BceLocals ==
    /\ bce_page = 1
    /\ bce_status = 0
    /\ bce_keys = {}
    /\ hit_older = FALSE
    /\ bce_archive = <<>>
    /\ bce_rows = <<>>

\* scrape_bce is not running.
BceIdle == bce_pc = "off" /\ BceLocals

\* The functions a specification does not run, at rest.
\* The __main__ block is not running.
MainIdle == src = 0 /\ saved = {}

\* from_jsonld is not running.
JsonldIdle ==
    /\ dateparser = TRUE
    /\ jl_pc = "off"
    /\ jl_items = <<>>
    /\ nd_arg = [kind |-> "none", text |-> ""]
    /\ nd_ret = [kind |-> "none", date |-> ""]

\* scrape_cogeco is not running.
CogecoIdle ==
    /\ cg_since = "2025-01-01"
    /\ cg_max_pages = MaxPages
    /\ cg_existing = {}
    /\ cg_pc = "off"
    /\ cg_page = 1
    /\ cg_status = 0
    /\ cg_out = <<>>

\* The offsets of a paginated run are not being followed.
PagingIdle ==
    /\ pg_url = [base |-> "https://site/news", query |-> <<>>, fragment |-> ""]
    /\ pg_p = 0
    /\ pg_offsets = <<>>

MoreIdle == JsonldIdle /\ CogecoIdle /\ PagingIdle

RestIdle == ListingIdle /\ TelusIdle /\ BceIdle /\ MainIdle /\ MoreIdle

Init == ScrapeInit /\ SaveIdle /\ NpuIdle /\ RestIdle

\* ------------------------------------------- scrape_press_releases: loop
UndatedKeys(items) == {Key(items[i]) : i \in {j \in 1..Len(items) : items[j].date = ""}}

\* Mutant of NextPage: the loop does not end at max_pages.
NextPageUnbounded ==
    /\ pc = "loop"
    /\ p <= max_pages + 1
    /\ requested' = Append(requested, p)
    /\ tries' = 0
    /\ last_status' = 0
    /\ http_ret' = "-"
    /\ cascade' = <<>>
    /\ pc' = "http"
    /\ UNCHANGED <<params, p, out, any_found, result, served, hist_vars,
                   sel_vars, calix_vars, outside_scrape>>

\* for p in range(1, max_pages+1): url = ...; http_get(url) is entered.
\* No strategy has run on the new page yet.
NextPage ==
    /\ pc = "loop"
    /\ p <= max_pages
    /\ requested' = Append(requested, p)
    /\ tries' = 0
    /\ last_status' = 0
    /\ http_ret' = "-"
    /\ cascade' = <<>>
    /\ pc' = "http"
    /\ UNCHANGED <<params, p, out, any_found, result, served, hist_vars,
                   sel_vars, calix_vars, outside_scrape>>

\* The range is exhausted.
LoopExhausted ==
    /\ pc = "loop"
    /\ p > max_pages
    /\ pc' = "after"
    /\ UNCHANGED <<params, http_vars, loop_vars, result, served, hist_vars,
                   sel_vars, calix_vars, cascade, outside_scrape>>

\* Mutant of on_http_get: the call is not wrapped in try/except.
on_http_get_uncaught(o) ==
    CASE o = "response" -> "feed"
      [] o = "retry" -> "http"
      [] OTHER -> "error"

\* Lines 584-588: where scrape_press_releases goes on after http_get came
\* back with outcome o.  An exception is caught (break); a None result makes
\* r.text raise AttributeError outside the try, which ends the function.
on_http_get(o) ==
    CASE o = "response" -> "feed"
      [] o = "retry" -> "http"
      [] o = "raised" -> "after"
      [] OTHER -> "error"

\* One requests.get of http_get and what follows it: return r on 200, sleep
\* and retry, or leave the loop and call r.raise_for_status().  tries and
\* last_status are locals of http_get: they end with the call.
HttpRequest ==
    /\ pc = "http"
    /\ \E s \in Statuses :
         LET o == http_get_step(tries, s) IN
         /\ tries' = IF o = "retry" THEN tries + 1 ELSE 0
         /\ last_status' = IF o = "retry" THEN s ELSE 0
         /\ http_ret' = IF o = "retry" THEN http_ret ELSE o
         /\ pc' = on_http_get(o)
         /\ fail1' = (fail1 \/ (o = "raised" /\ p = 1))
         /\ failN' = (failN \/ (o \in {"raised", "none"} /\ p > 1))
    /\ UNCHANGED <<params, loop_vars, result, served, old_seen, empty1,
                   undated_seen, sel_vars, calix_vars, cascade, outside_scrape>>

\* Lines 604-616, run on the non-empty items of a page.
ProcessPage(items) ==
    LET kept == keep_only_newer(items, cutoff) IN
    /\ any_found' = TRUE
    /\ out' = out \o kept
    /\ old_seen' = (old_seen \/ \E i \in 1..Len(items) : IsOld(items[i], cutoff))
    /\ undated_seen' = undated_seen \cup UndatedKeys(items)
    /\ IF StopAfterPage(kept, cutoff)
       THEN pc' = "after" /\ p' = p
       ELSE pc' = "loop" /\ p' = p + 1
    /\ UNCHANGED empty1

\* Mutant of PageEmpty: continue instead of break.
PageEmptyContinue ==
    /\ pc' = "loop"
    /\ p' = p + 1
    /\ empty1' = (empty1 \/ p = 1)
    /\ UNCHANGED <<out, any_found, old_seen, undated_seen>>

\* Lines 597-602: no strategy found anything on this page: break.
PageEmpty ==
    /\ pc' = "after"
    /\ empty1' = (empty1 \/ p = 1)
    /\ UNCHANGED <<p, out, any_found, old_seen, undated_seen>>

\* Line 591: from_rss_or_atom(url, soup).
TryFeed ==
    /\ pc = "feed"
    /\ \E items \in Found :
         /\ served' = served + Len(items)
         /\ cascade' = Append(cascade, [s |-> "feed", items |-> items])
         /\ IF items # <<>>
            THEN ProcessPage(items)
            ELSE /\ pc' = "jsonld"
                 /\ UNCHANGED <<p, out, any_found, old_seen, empty1, undated_seen>>
    /\ UNCHANGED <<params, http_vars, requested, result, fail1, failN,
                   sel_vars, calix_vars, outside_scrape>>

\* Mutant of TryJsonld: strategy 3 is run whatever strategy 2 returned.
TryJsonldThenHtml ==
    /\ pc = "jsonld"
    /\ \E raw \in Found :
         /\ served' = served + Len(raw)
         /\ cascade' = Append(cascade, [s |-> "jsonld", items |-> from_jsonld(raw)])
         /\ pc' = "html"
    /\ UNCHANGED <<params, http_vars, loop_vars, result, hist_vars,
                   sel_vars, calix_vars, outside_scrape>>

\* Lines 592-593: from_jsonld(url, html).
TryJsonld ==
    /\ pc = "jsonld"
    /\ \E raw \in Found :
         LET items == from_jsonld(raw) IN
         /\ served' = served + Len(raw)
         /\ cascade' = Append(cascade, [s |-> "jsonld", items |-> items])
         /\ IF items # <<>>
            THEN ProcessPage(items)
            ELSE /\ pc' = "html"
                 /\ UNCHANGED <<p, out, any_found, old_seen, empty1, undated_seen>>
    /\ UNCHANGED <<params, http_vars, requested, result, fail1, failN,
                   sel_vars, calix_vars, outside_scrape>>

\* Lines 594-602: from_html_list(url, html), then the test for no items.
TryHtml ==
    /\ pc = "html"
    /\ \E raw \in Found :
         LET items == from_html_list(raw) IN
         /\ served' = served + Len(raw)
         /\ cascade' = Append(cascade, [s |-> "html", items |-> items])
         /\ IF items # <<>> THEN ProcessPage(items) ELSE PageEmpty
    /\ UNCHANGED <<params, http_vars, requested, result, fail1, failN,
                   sel_vars, calix_vars, outside_scrape>>

\* Lines 626-634: some page yielded items; final dedup and return.
ReturnDedup ==
    /\ pc = "after"
    /\ any_found
    /\ result' = Dedup(out)
    /\ cascade' = <<>>
    /\ pc' = "done"
    /\ UNCHANGED <<params, http_vars, loop_vars, served, hist_vars, sel_vars,
                   calix_vars, outside_scrape>>

\* ------------------------------------------------- scrape_with_selenium
\* The filter of scrape_with_selenium (lines 524-533) and of
\* _scrape_calix_load_more (lines 435-443).
sel_keep(items, c) == SelectSeq(items, LAMBDA it : ~IsOld(it, c))

\* scrape_with_selenium, lines 536-543: stop once the page held a date
\* older than the cutoff; it reads the unfiltered items.
SelStop(items, c) == \E i \in 1..Len(items) : IsOld(items[i], c)

\* Lines 618-624 with no page having yielded items: scrape_with_selenium
\* is called.  Selenium is not importable (_SEL_OK false): it returns [].
FallbackUnavailable ==
    /\ pc = "after"
    /\ ~any_found
    /\ sel_calls' = sel_calls + 1
    /\ sel_ret' = "returned"
    /\ result' = <<>>
    /\ cascade' = <<>>
    /\ pc' = "done"
    /\ UNCHANGED <<params, http_vars, loop_vars, served, hist_vars, calix,
                   driver, sel_p, sel_out, calix_vars, outside_scrape>>

\* setup_driver() raises before the try block is entered: no session
\* exists, the exception reaches line 623 and [] is returned.
FallbackDriverFails ==
    /\ pc = "after"
    /\ ~any_found
    /\ sel_calls' = sel_calls + 1
    /\ sel_ret' = "raised"
    /\ result' = <<>>
    /\ cascade' = <<>>
    /\ pc' = "done"
    /\ UNCHANGED <<params, http_vars, loop_vars, served, hist_vars, calix,
                   driver, sel_p, sel_out, calix_vars, outside_scrape>>

\* The driver is created and the host is not calix.com: the page loop of
\* lines 506-545 is entered.
FallbackGeneric ==
    /\ pc = "after"
    /\ ~any_found
    /\ sel_calls' = sel_calls + 1
    /\ driver' = "open"
    /\ calix' = FALSE
    /\ sel_p' = 1
    /\ sel_out' = <<>>
    /\ cascade' = <<>>
    /\ pc' = "sel_loop"
    /\ UNCHANGED <<params, http_vars, loop_vars, result, served, hist_vars,
                   sel_ret, calix_vars, outside_scrape>>

\* Leaving the try block of scrape_with_selenium normally: finally
\* driver.quit(), then the dedup of lines 549-557 is returned, and
\* scrape_press_releases returns it (line 622).
SelReturn(acc) ==
    /\ driver' = "quit"
    /\ sel_ret' = "returned"
    /\ result' = Dedup(acc)
    /\ pc' = "done"

\* Mutant of SelRaise: the session is not quit when an exception passes.
SelRaiseNoQuit ==
    /\ driver' = driver
    /\ sel_ret' = "raised"
    /\ result' = <<>>
    /\ pc' = "done"

\* An exception inside the try block: finally driver.quit(), the exception
\* reaches line 623 and [] is returned.
SelRaise ==
    /\ driver' = "quit"
    /\ sel_ret' = "raised"
    /\ result' = <<>>
    /\ pc' = "done"

\* Lines 524-545 on the non-empty items of a rendered page.
SelProcess(items) ==
    /\ sel_out' = sel_out \o sel_keep(items, cutoff)
    /\ undated_seen' = undated_seen \cup UndatedKeys(items)
    /\ IF SelStop(items, cutoff)
       THEN SelReturn(sel_out') /\ sel_p' = sel_p
       ELSE /\ sel_p' = sel_p + 1
            /\ UNCHANGED <<driver, sel_ret, result, pc>>

\* One pass of the page loop of scrape_with_selenium.
SelPage ==
    /\ pc = "sel_loop"
    /\ \/ /\ sel_p > max_pages                      \* range exhausted
          /\ SelReturn(sel_out)
          /\ UNCHANGED <<sel_p, sel_out, served, undated_seen>>
       \/ /\ sel_p <= max_pages                     \* driver.get raises
          /\ SelRaise
          /\ UNCHANGED <<sel_p, sel_out, served, undated_seen>>
       \/ /\ sel_p <= max_pages
          /\ \E raw \in Found :
               LET items == from_html_list(raw) IN
               /\ items # <<>>
               /\ served' = served + Len(raw)
               /\ SelProcess(items)
       \/ /\ sel_p <= max_pages                     \* from_html_list: []
          /\ \E raw \in Found :                     \* _from_html_known_js_sites
               LET items == titled(raw) IN
               /\ served' = served + Len(raw)
               /\ IF items = <<>>
                  THEN /\ SelReturn(sel_out)
                       /\ UNCHANGED <<sel_p, sel_out, undated_seen>>
                  ELSE SelProcess(items)
    /\ UNCHANGED <<params, http_vars, loop_vars, old_seen, empty1, fail1,
                   failN, calix, sel_calls, calix_vars, cascade, outside_scrape>>

\* ---------------------------------------------- _scrape_calix_load_more
\* re.search(r"/(20\d{2})/", link): the year embedded in the link, 0 when
\* the link has none.  "L1" stands for a link without a year, "L2" for one
\* under /2024/.
LinkYear(l) == IF l = "L2" THEN 2024 ELSE 0

\* Lines 392-407: the scan that sets stop.
CalixStop(rows, c) ==
    \E i \in 1..Len(rows) :
        \/ LinkYear(rows[i].link) # 0 /\ LinkYear(rows[i].link) < CALIX_YEAR
        \/ IsOld(rows[i], c)

\* _calix_fill_missing_dates_with_article: a row with a date is kept as it
\* is; a row without one gets whatever norm_date makes of the article page
\* (a date, or still nothing).
FillOutcomes(rows) ==
    {f \in [1..Len(rows) -> Records] :
        \A i \in 1..Len(rows) :
            /\ Key(f[i]) = Key(rows[i])
            /\ rows[i].date # "" => f[i] = rows[i]}

\* Lines 366-373: driver.get(r["link"]) is issued for every row without a
\* date and nothing navigates back afterwards.  The browser has reached an
\* article page when some such call went through; each call is in a try,
\* so it may also fail, and then the row keeps no date.
ArticleReached(rows) ==
    IF \E i \in 1..Len(rows) : rows[i].date = "" THEN BOOLEAN ELSE {FALSE}

Filled(rows, reached) == IF reached THEN FillOutcomes(rows) ELSE {rows}

\* Lines 435-449: the final filter with its seen-set.
calix_kept(items, c) == UniqFirst(sel_keep(items, c))

\* The driver is created and the host is calix.com: line 502.
FallbackCalix ==
    /\ pc = "after"
    /\ ~any_found
    /\ sel_calls' = sel_calls + 1
    /\ driver' = "open"
    /\ calix' = TRUE
    /\ max_clicks' = MaxClicks
    /\ clicks' = 0
    /\ stop' = FALSE
    /\ all_items' = <<>>
    /\ location' = "listing"
    /\ off_listing' = FALSE
    /\ cascade' = <<>>
    /\ pc' = "calix"
    /\ UNCHANGED <<params, http_vars, loop_vars, result, served, hist_vars,
                   sel_p, sel_out, sel_ret, outside_scrape>>

\* return kept (line 449), returned as it is by scrape_with_selenium
\* (line 502) after finally driver.quit().
CalixReturn(items) ==
    /\ driver' = "quit"
    /\ sel_ret' = "returned"
    /\ undated_seen' = undated_seen \cup UndatedKeys(items)
    /\ result' = calix_kept(items, cutoff)
    /\ pc' = "done"

\* One pass of the while loop of _scrape_calix_load_more (lines 384-433).
CalixIter ==
    /\ pc = "calix"
    /\ \/ /\ clicks > max_clicks                    \* loop condition false
          /\ CalixReturn(all_items)
          /\ UNCHANGED <<clicks, stop, all_items, served, location, off_listing>>
       \/ /\ clicks <= max_clicks                   \* the driver raises
          /\ SelRaise
          /\ UNCHANGED <<clicks, stop, all_items, served, undated_seen,
                         location, off_listing>>
       \/ /\ clicks <= max_clicks
          /\ \E raw \in Found : \E reached \in ArticleReached(titled(raw)) :
             \E rows \in Filled(titled(raw), reached) : \E button \in BOOLEAN :
               /\ served' = served + Len(raw)
               /\ location' = IF reached THEN "article" ELSE location
               /\ stop' = CalixStop(rows, cutoff)
               /\ off_listing' = \/ off_listing
                                 \/ location # "listing"
                                 \/ ~stop' /\ location' # "listing"
               /\ all_items' = Dedup(all_items \o rows)
               /\ IF stop' \/ ~button
                  THEN CalixReturn(all_items') /\ UNCHANGED clicks
                  ELSE /\ clicks' = clicks + 1
                       /\ UNCHANGED <<driver, sel_ret, result, pc, undated_seen>>
    /\ UNCHANGED <<params, http_vars, loop_vars, old_seen, empty1, fail1,
                   failN, calix, sel_calls, sel_p, sel_out, max_clicks,
                   cascade, outside_scrape>>

\* --------------------------------------------------------- save_to_master
\* str.strip() on the values of RawTitles, Links and Dates.
strip(t) == IF t = "New CEO " THEN "New CEO" ELSE t

\* Lines 56-66: df_new, one row per input row with a title and a link.  The
\* columns id (a fresh uuid4) and fetched_at (the clock) are left out: the
\* merge reads neither.
df_new(rows, company) ==
    LET ok == SelectSeq(rows, LAMBDA r : r.title # "" /\ r.link # "")
    IN [i \in 1..Len(ok) |->
          [company |-> company, title |-> strip(ok[i].title),
           link |-> strip(ok[i].link), date |-> strip(ok[i].date)]]

MKey(row) == <<row.company, row.title>>

MasterKeys(m) == {MKey(m[i]) : i \in 1..Len(m)}

\* Mutant of only_new: the merge indicator is not filtered on.
only_new_unfiltered(df, m) == df

\* Lines 75-77: the left merge on (company, title) with indicator, keeping
\* the left_only rows: the rows of df whose key the master does not hold.
only_new(df, m) == SelectSeq(df, LAMBDA r : MKey(r) \notin MasterKeys(m))

\* Mutant of merged_master: the file is rewritten with the new rows alone.
merged_master_rewritten(df, m) ==
    IF df = <<>> THEN m
    ELSE IF m = <<>> THEN df
    ELSE only_new(df, m)

\* Lines 67-85: the master after the call, and the value returned.
merged_master(df, m) ==
    IF df = <<>> THEN m
    ELSE IF m = <<>> THEN df
    ELSE m \o only_new(df, m)

returned_count(df, m) ==
    IF df = <<>> THEN 0
    ELSE IF m = <<>> THEN Len(df)
    ELSE IF only_new(df, m) = <<>> THEN 0
    ELSE Len(df)

\* One run's save_to_master(rows, company) on the persisted master.  The
\* file is taken to give back the rows written to it (load_master after
\* to_csv); the call is left out once the master would outgrow MaxMaster.
SaveRows(company) ==
    \E rows \in SeqUpTo(RawRows, MaxRows) :
        LET df == df_new(rows, company) IN
        /\ Len(merged_master(df, master)) <= MaxMaster
        /\ master' = merged_master(df, master)
        /\ ret' = returned_count(df, master)
        /\ dup_call' = (df # <<>> /\ \A i \in 1..Len(df) : MKey(df[i]) \in MasterKeys(master))
        /\ UNCHANGED outside_save

SaveToMaster == \E company \in Companies : SaveRows(company)

\* ---------------------------------------------------------- next_page_url
\* A query value: the decimal string of n when num, else the text t ("" is
\* the blank value of "key=").
Num(n) == [num |-> TRUE, n |-> n, t |-> ""]
Txt(t) == [num |-> FALSE, n |-> 0, t |-> t]
Blank == Txt("")

QueryKeys == {"start", "page", "Page", "p", "tag"}
QueryValues == {Blank, Txt("x"), Num(0), Num(16)}
QueryPairs == [k : QueryKeys, v : QueryValues]
\* A listing URL as urlparse splits it: the query as its key=value pairs in
\* order, the fragment, and everything before the query as base.
ListUrls == [base : {"https://site/news"}, query : SeqUpTo(QueryPairs, MaxParams),
             fragment : {"", "top"}]

\* parse_qs(u.query), keep_blank_values left at False: a dict in the order
\* in which the keys first occur, each key with the list of its non-blank
\* values; a pair with a blank value is skipped.
RECURSIVE parse_qs_from(_, _)
parse_qs_from(q, pairs) ==
    IF pairs = <<>> THEN q
    ELSE LET kv == Head(pairs)
             hit == {j \in 1..Len(q) : q[j].k = kv.k}
         IN IF kv.v = Blank THEN parse_qs_from(q, Tail(pairs))
            ELSE IF hit = {}
            THEN parse_qs_from(Append(q, [k |-> kv.k, vs |-> <<kv.v>>]), Tail(pairs))
            ELSE LET j == CHOOSE x \in hit : TRUE
                 IN parse_qs_from([q EXCEPT ![j].vs = Append(@, kv.v)], Tail(pairs))

parse_qs(query) == parse_qs_from(<<>>, query)

\* k in q, and q[k] = [v] on the dict: an existing key keeps its place, a
\* new key goes last.
InQ(q, k) == \E j \in 1..Len(q) : q[j].k = k

GetQ(q, k) == q[CHOOSE j \in 1..Len(q) : q[j].k = k].vs

SetQ(q, k, v) ==
    IF InQ(q, k)
    THEN [j \in 1..Len(q) |-> IF q[j].k = k THEN [k |-> k, vs |-> <<v>>] ELSE q[j]]
    ELSE Append(q, [k |-> k, vs |-> <<v>>])

\* urlencode({k: v[0] for k, v in q.items()}): one pair per key, its first
\* value.
urlencode(q) == [j \in 1..Len(q) |-> [k |-> q[j].k, v |-> q[j].vs[1]]]

\* Line 287: the page-number key that is written.
PageKey(q) == IF InQ(q, "page") THEN "page" ELSE IF InQ(q, "Page") THEN "Page" ELSE "p"

Returned(u, query) ==
    [kind |-> "url", base |-> u.base, query |-> query, fragment |-> u.fragment]

ValueError == [kind |-> "raised", base |-> "", query |-> <<>>, fragment |-> ""]

\* next_page_url(list_url, page), lines 280-292.  int() of a value that is
\* not a decimal string raises ValueError.
next_page_url(u, n) ==
    LET q == parse_qs(u.query) IN
    IF InQ(q, "start")
    THEN LET s == GetQ(q, "start")[1] IN
         IF ~s.num THEN ValueError
         ELSE LET step == IF s.n # 0 THEN s.n ELSE DEFAULT_STEP
              IN Returned(u, urlencode(SetQ(q, "start", Num(n * step))))
    ELSE IF InQ(q, "page") \/ InQ(q, "Page") \/ InQ(q, "p")
    THEN Returned(u, urlencode(SetQ(q, PageKey(q), Num(n))))
    ELSE Returned(u, urlencode(SetQ(q, "page", Num(n))))

\* One call next_page_url(list_url, page).
NextPageUrl ==
    /\ npu_calls < 2
    /\ npu_prev' = npu_ret
    /\ npu_ret' = next_page_url(list_url, page)
    /\ npu_calls' = npu_calls + 1
    /\ UNCHANGED <<list_url, page, outside_npu>>

\* ------------------- scrape_rogers / scrape_videotron and their loader
\* The two files hold the same code but for the selectors and the labels of
\* the load-more control; lm_site tells which one runs.
Sites == {"rogers", "videotron"}

\* Mutant of on_loader_raise: the call of the loader is not in a try block.
on_loader_raise_uncaught == "aborted"

\* scrape_rogers lines 396-404 / scrape_videotron lines 408-416: where the
\* scraper goes on when the loader raised: the except clause calls
\* _http_get(BASE_LIST_URL).
on_loader_raise == "get"

\* Mutant of click_decision: the no-growth test is left out.
click_without_growth_test(i, count, last, oldest, control, c) ==
    IF oldest # "" /\ strptime(oldest) < strptime(c) THEN "break"
    ELSE IF ~control THEN "break"
    ELSE "click"

\* The body of the for loop of the loader (rogers 273-297, videotron
\* 282-326) on what the page shows: count links, oldest visible date
\* ("" when no date node parses), and whether a load-more control is found.
click_decision(i, count, last, oldest, control, c) ==
    IF i > 0 /\ count <= last THEN "break"
    ELSE IF oldest # "" /\ strptime(oldest) < strptime(c) THEN "break"
    ELSE IF ~control THEN "break"
    ELSE "click"

\* An exception inside the loader's try block, or webdriver.Chrome raising
\* before it: finally driver.quit() when a session exists, then the
\* exception reaches the caller.
LoaderRaise(d) ==
    /\ lm_driver' = d
    /\ lm_raised' = TRUE
    /\ lm_pc' = on_loader_raise

\* rogers 394-407 / videotron 407-420: the loader is called, or the listing
\* is fetched directly when use_selenium_load_more is off.
ListingStart ==
    /\ lm_pc = "start"
    /\ IF use_selenium_load_more
       THEN \/ /\ lm_driver' = "open"              \* webdriver.Chrome(...)
               /\ lm_pc' = "open"
               /\ UNCHANGED lm_raised
            \/ LoaderRaise("none")                 \* it raises: no session
       ELSE /\ lm_pc' = "get"
            /\ UNCHANGED <<lm_driver, lm_raised>>
    /\ UNCHANGED <<lm_site, since, use_selenium_load_more, existing_links,
                   lm_max_clicks, lm_i, last_count, lm_clicks, lm_obs, lm_gets,
                   lm_status, results, outside_listing>>

\* driver.get(url) and the bounded wait for the listing container.
LoaderOpen ==
    /\ lm_pc = "open"
    /\ \/ /\ lm_pc' = "loop"
          /\ lm_i' = 0
          /\ last_count' = 0
          /\ UNCHANGED <<lm_driver, lm_raised>>
       \/ /\ LoaderRaise("quit")                   \* navigation fails, wait times out
          /\ UNCHANGED <<lm_i, last_count>>
    /\ UNCHANGED <<lm_site, since, use_selenium_load_more, existing_links,
                   lm_max_clicks, lm_clicks, lm_obs, lm_gets, lm_status,
                   results, outside_listing>>

\* return driver.page_source, finally driver.quit(): the listing is parsed
\* next.
LoaderReturn ==
    /\ lm_driver' = "quit"
    /\ lm_pc' = "parse"
    /\ UNCHANGED lm_raised

\* One pass of for i in range(max_clicks).
LoaderIter ==
    /\ lm_pc = "loop"
    /\ \/ /\ lm_i >= lm_max_clicks                 \* range exhausted
          /\ LoaderReturn
          /\ UNCHANGED <<lm_i, last_count, lm_clicks, lm_obs>>
       \/ /\ lm_i < lm_max_clicks                  \* a driver call raises
          /\ LoaderRaise("quit")
          /\ UNCHANGED <<lm_i, last_count, lm_clicks, lm_obs>>
       \/ /\ lm_i < lm_max_clicks
          /\ \E count \in 0..MaxLinks : \E oldest \in Dates : \E control \in BOOLEAN :
               LET d == click_decision(lm_i, count, last_count, oldest, control, since)
                   nogrowth == lm_i > 0 /\ count <= last_count
               IN /\ last_count' = IF nogrowth THEN last_count ELSE count
                  /\ lm_obs' = [grew |-> ~nogrowth,
                                old |-> (oldest # "" /\ strptime(oldest) < strptime(since)),
                                control |-> control,
                                clicked |-> (d = "click")]
                  /\ IF d = "click"
                     THEN /\ lm_clicks' = lm_clicks + 1
                          /\ lm_i' = lm_i + 1
                          /\ UNCHANGED <<lm_driver, lm_raised, lm_pc>>
                     ELSE /\ LoaderReturn
                          /\ UNCHANGED <<lm_i, lm_clicks>>
    /\ UNCHANGED <<lm_site, since, use_selenium_load_more, existing_links,
                   lm_max_clicks, lm_gets, lm_status, results, outside_listing>>

\* _http_get(BASE_LIST_URL): one GET, raise_for_status(), r.text.  A
\* failure is not caught in scrape_rogers / scrape_videotron.
ListingGet ==
    /\ lm_pc = "get"
    /\ \E st \in Statuses :
         /\ lm_status' = st
         /\ lm_gets' = lm_gets + 1
         /\ lm_pc' = IF st = 0 \/ (st >= 400 /\ st < 600) THEN "aborted" ELSE "parse"
    /\ UNCHANGED <<lm_site, since, use_selenium_load_more, existing_links,
                   lm_max_clicks, lm_driver, lm_i, last_count, lm_clicks,
                   lm_obs, lm_raised, results, outside_listing>>

\* The loop over the parsed items (rogers 414-441, videotron 429-456): an
\* item is kept when its link is new, it has a date (its own, or the one the
\* article page gave; "" when neither) and the date is not before since.
RECURSIVE listing_filter(_, _, _, _)
listing_filter(acc, items, seen, c) ==
    IF items = <<>> THEN acc
    ELSE LET it == Head(items) IN
         IF it.link \in seen \/ it.date = "" \/ strptime(it.date) < strptime(c)
         THEN listing_filter(acc, Tail(items), seen, c)
         ELSE listing_filter(Append(acc, it), Tail(items), seen \cup {it.link}, c)

\* _parse_listing_page(list_html) and the filter loop, to the return.
ListingParse ==
    /\ lm_pc = "parse"
    /\ \E items \in SeqUpTo(Records, MaxItems) :
         results' = listing_filter(<<>>, items, existing_links, since)
    /\ lm_pc' = "returned"
    /\ UNCHANGED <<lm_site, since, use_selenium_load_more, existing_links,
                   lm_max_clicks, lm_driver, lm_i, last_count, lm_clicks,
                   lm_obs, lm_raised, lm_gets, lm_status, outside_listing>>

ListingNext ==
    \/ ListingStart
    \/ LoaderOpen
    \/ LoaderIter
    \/ ListingGet
    \/ ListingParse

\* ------------------------------------------------------------ scrape_telus
\* Line 195: create_driver(), outside the try block.
TelusStart ==
    /\ tel_pc = "start"
    /\ \/ tel_driver' = "open" /\ tel_pc' = "open"
       \/ tel_driver' = "none" /\ tel_pc' = "raised"     \* create_driver raises
    /\ UNCHANGED <<tel_cards, outside_telus>>

\* Leaving the try block of lines 196-200: finally driver.quit().
TelusLeave(how) ==
    /\ tel_driver' = "quit"
    /\ tel_pc' = how

\* load_all_2025_cards, lines 83-87: driver.get and the wait for a card.
TelusOpen ==
    /\ tel_pc = "open"
    /\ \/ tel_pc' = "loop" /\ UNCHANGED tel_driver
       \/ TelusLeave("raised")
    /\ UNCHANGED <<tel_cards, outside_telus>>

\* One pass of the while loop of load_all_2025_cards (lines 89-147), and
\* extract_cards_from_dom once it is left.  The loop goes round only when
\* the click added cards.
TelusIter ==
    /\ tel_pc = "loop"
    /\ \/ /\ TelusLeave("raised")                  \* a driver call raises
          /\ UNCHANGED tel_cards
       \/ /\ TelusLeave("returned")                \* break, extraction returns
          /\ UNCHANGED tel_cards
       \/ /\ \E n \in (tel_cards + 1)..MaxLinks : tel_cards' = n
          /\ UNCHANGED <<tel_pc, tel_driver>>
    /\ UNCHANGED outside_telus

TelusNext ==
    \/ TelusStart
    \/ TelusOpen
    \/ TelusIter

\* -------------------------------------------------------------- scrape_bce
\* An entry of a page of the BCE newsroom: a date line and the title line
\* that follows it.
BceDates == {"2024-12-31", "2025-01-01", "2025-01-02"}
BceEntries == [date : BceDates, title : {"Q1 results", "New CEO"}]

\* dt.year of a date of BceDates.
Year(d) == IF d = "2024-12-31" THEN 2024 ELSE 2025

BceKey(e) == <<e.title, e.date>>

\* extract_latest_news: the cards of the top block dated in CUTOFF_YEAR or
\* later.
extract_latest_news(cards) == SelectSeq(cards, LAMBDA e : Year(e.date) >= CUTOFF_YEAR)

\* extract_news_archive, lines 148-171: the entries are read in page order;
\* the scan stops at the first one dated before CUTOFF_YEAR and sets
\* hit_older.
RECURSIVE archive_rows(_)
archive_rows(entries) ==
    IF entries = <<>> THEN <<>>
    ELSE IF Year(Head(entries).date) >= CUTOFF_YEAR
         THEN <<Head(entries)>> \o archive_rows(Tail(entries))
         ELSE <<>>

archive_hit_older(entries) == \E i \in 1..Len(entries) : Year(entries[i].date) < CUTOFF_YEAR

\* Lines 184-191: the GET of the page.  requests.get raising is not caught.
BceRequest ==
    /\ bce_pc = "request"
    /\ \E st \in Statuses :
         /\ bce_status' = st
         /\ bce_pc' = IF st = 0 THEN "error" ELSE IF st # 200 THEN "done" ELSE "parse"
    /\ UNCHANGED <<bce_page, bce_keys, hit_older, bce_archive, bce_rows,
                   outside_bce>>

\* Lines 193-214 on a page that answered 200: extract, stop on an empty
\* page or on hit_older, else page += 1.  The loop has no other exit.
BcePage ==
    /\ bce_pc = "parse"
    /\ \E cards \in SeqUpTo(BceEntries, IF bce_page = 1 THEN MaxEntries ELSE 0) :
       \E archive \in SeqUpTo(BceEntries, MaxEntries) :
         LET page_rows == extract_latest_news(cards) \o archive_rows(archive) IN
         /\ bce_archive' = archive
         /\ bce_rows' = archive_rows(archive)
         /\ hit_older' = archive_hit_older(archive)
         /\ bce_keys' = bce_keys \cup {BceKey(page_rows[i]) : i \in 1..Len(page_rows)}
         /\ IF page_rows = <<>> \/ hit_older'
            THEN bce_pc' = "done" /\ UNCHANGED bce_page
            ELSE /\ bce_pc' = "request"
                 /\ bce_page' = IF bce_page < MaxBcePage THEN bce_page + 1 ELSE bce_page
    /\ UNCHANGED <<bce_status, outside_bce>>

BceNext ==
    \/ BceRequest
    \/ BcePage

\* ---------------------------------------------------------------- __main__
\* Lines 640-644: the sources, in the order of the dict.
sources == <<"Bell", "TELUS">>

\* Lines 650-655 once scrape_press_releases has returned rows for the
\* current source: save_to_master(rows, company), then the next pass of the
\* for loop calls scrape_press_releases on the next source, or the loop and
\* the program end.  An exception leaving scrape_press_releases is caught
\* nowhere in the block: the program ends with it.
MainSave ==
    /\ pc = "done"
    /\ src \in 1..Len(sources)
    /\ LET df == df_new(result, sources[src]) IN
         /\ master' = merged_master(df, master)
         /\ ret' = returned_count(df, master)
         /\ dup_call' = (df # <<>> /\ \A i \in 1..Len(df) : MKey(df[i]) \in MasterKeys(master))
    /\ saved' = saved \cup {sources[src]}
    /\ src' = src + 1
    /\ pc' = IF src < Len(sources) THEN "loop" ELSE "exit"
    /\ p' = 1
    /\ tries' = 0
    /\ last_status' = 0
    /\ http_ret' = "-"
    /\ out' = <<>>
    /\ any_found' = FALSE
    /\ result' = <<>>
    /\ requested' = <<>>
    /\ old_seen' = FALSE
    /\ empty1' = FALSE
    /\ fail1' = FALSE
    /\ failN' = FALSE
    /\ undated_seen' = {}
    /\ calix' = FALSE
    /\ sel_calls' = 0
    /\ driver' = "none"
    /\ sel_p' = 1
    /\ sel_out' = <<>>
    /\ sel_ret' = "-"
    /\ clicks' = 0
    /\ stop' = FALSE
    /\ max_clicks' = 0
    /\ all_items' = <<>>
    /\ location' = "none"
    /\ off_listing' = FALSE
    /\ cascade' = <<>>
    /\ UNCHANGED <<params, served, npu_vars, listing_vars, telus_vars, bce_vars,
                   more_vars>>

\* ------------------------------------------------------------------ spec
ScrapeNext ==
    \/ NextPage
    \/ LoopExhausted
    \/ HttpRequest
    \/ TryFeed
    \/ TryJsonld
    \/ TryHtml
    \/ ReturnDedup
    \/ FallbackUnavailable
    \/ FallbackDriverFails
    \/ FallbackGeneric
    \/ FallbackCalix
    \/ SelPage
    \/ CalixIter

Next == ScrapeNext

Spec == Init /\ [][Next]_vars

\* The master dataset alone, under any sequence of save_to_master calls.
SaveInit ==
    /\ ScrapeInit
    /\ cutoff = "2025-01-01"
    /\ max_pages = MaxPages
    /\ SaveIdle
    /\ NpuIdle
    /\ RestIdle

SaveNext == SaveToMaster

SpecSave == SaveInit /\ [][SaveNext]_vars

\* next_page_url alone, called on any listing URL and page number.
NpuInit ==
    /\ ScrapeOff
    /\ SaveIdle
    /\ RestIdle
    /\ list_url \in ListUrls
    /\ page \in 2..MaxPageArg
    /\ npu_ret = [kind |-> "none", query |-> <<>>, base |-> "", fragment |-> ""]
    /\ npu_prev = npu_ret
    /\ npu_calls = 0

\* scrape_rogers or scrape_videotron started with any arguments.
ListingInit ==
    /\ lm_site \in Sites
    /\ since \in Cutoffs
    /\ use_selenium_load_more \in BOOLEAN
    /\ existing_links \in SUBSET Links
    /\ lm_max_clicks \in 0..MaxLmClicks
    /\ lm_pc = "start"
    /\ ListingLocals

TelusInit ==
    /\ tel_pc = "start"
    /\ tel_driver = "none"
    /\ tel_cards \in 1..MaxLinks

\* One run of scrape_rogers / scrape_videotron.  The process is the only
\* thread and every wait in it is bounded, so it keeps taking steps.
ListingSpecInit ==
    /\ ScrapeOff
    /\ SaveIdle
    /\ NpuIdle
    /\ ListingInit
    /\ TelusIdle
    /\ BceIdle
    /\ MainIdle
    /\ MoreIdle

SpecListing == ListingSpecInit /\ [][ListingNext]_vars /\ WF_vars(ListingNext)

\* One rendered-mode run of any of the scrapers that open a browser
\* session: scrape_press_releases with its fallback, scrape_rogers /
\* scrape_videotron, scrape_telus.
RenderedInit ==
    /\ SaveIdle
    /\ NpuIdle
    /\ BceIdle
    /\ MainIdle
    /\ MoreIdle
    /\ \/ ScrapeInit /\ ListingIdle /\ TelusIdle
       \/ ScrapeOff /\ ListingInit /\ TelusIdle
       \/ ScrapeOff /\ ListingIdle /\ TelusInit

RenderedNext ==
    \/ ScrapeNext
    \/ ListingNext
    \/ TelusNext

SpecRendered == RenderedInit /\ [][RenderedNext]_vars

\* One run of scrape_bce; the process keeps taking steps.
BceInit ==
    /\ ScrapeOff
    /\ SaveIdle
    /\ NpuIdle
    /\ ListingIdle
    /\ TelusIdle
    /\ MainIdle
    /\ MoreIdle
    /\ bce_pc = "request"
    /\ BceLocals

SpecBce == BceInit /\ [][BceNext]_vars /\ WF_vars(BceNext)

\* The __main__ block: CUTOFF of line 646, max_pages=8 of line 650 (scaled
\* to MaxPages), the first source being scraped.
MainInit ==
    /\ ScrapeInit
    /\ cutoff = "2025-01-01"
    /\ max_pages = MaxPages
    /\ SaveIdle
    /\ NpuIdle
    /\ ListingIdle
    /\ TelusIdle
    /\ BceIdle
    /\ MoreIdle
    /\ src = 1
    /\ saved = {}

MainNext ==
    \/ ScrapeNext
    \/ MainSave

SpecMain == MainInit /\ [][MainNext]_vars

NpuNext == NextPageUrl

SpecNpu == NpuInit /\ [][NpuNext]_vars

\* ------------------------------------------------- norm_date, from_jsonld
\* What from_jsonld may hand to norm_date at lines 157 and 167: the value
\* of datePublished / dateModified in a parsed JSON-LD object, "or" the
\* empty string.  A JSON value is a string, null (None; also what a missing
\* key gives), a number, an object or an array.
Str(t) == [kind |-> "str", text |-> t]
DateTexts == {"", "2025-01-01", " 2025-01-01 ", "2025/01/01", "01 January 2025",
              "Jan 01, 2025", "January 01, 2025", "1 janvier 2025", "soon"}
JsonValues ==
    {Str(t) : t \in DateTexts} \cup
    {[kind |-> k, text |-> ""] : k \in {"None", "zero", "number", "object",
                                         "empty_array", "array"}}

\* bool(v): None, 0, "" and [] are false.
Truthy(v) ==
    CASE v.kind = "str" -> v.text # ""
      [] v.kind \in {"None", "zero", "empty_array"} -> FALSE
      [] OTHER -> TRUE

\* str.strip() on the values of DateTexts.
nd_strip(t) == IF t = " 2025-01-01 " THEN "2025-01-01" ELSE t

\* The five formats of line 102, in order, and whether strptime accepts the
\* text under each.
Formats == <<"%Y-%m-%d", "%Y/%m/%d", "%d %B %Y", "%b %d, %Y", "%B %d, %Y">>
Accepts(t, fmt) ==
    \/ fmt = "%Y-%m-%d" /\ t = "2025-01-01"
    \/ fmt = "%Y/%m/%d" /\ t = "2025/01/01"
    \/ fmt = "%d %B %Y" /\ t = "01 January 2025"
    \/ fmt = "%b %d, %Y" /\ t = "Jan 01, 2025"
    \/ fmt = "%B %d, %Y" /\ t = "January 01, 2025"

\* dateparser.parse(s, languages=["en","fr"], DATE_ORDER DMY) on the texts
\* no format accepts.
dateparser_parses(t) == t = "1 janvier 2025"

Resolved(d) == [kind |-> "returned", date |-> d]
AttributeError == [kind |-> "raised", date |-> ""]

\* Mutant of norm_date: a value that is not a string counts as no date.
norm_date_str_only(v, dp) ==
    IF v.kind # "str" THEN Resolved("")
    ELSE LET t == nd_strip(v.text) IN
         IF \E i \in 1..Len(Formats) : Accepts(t, Formats[i])
         THEN Resolved("2025-01-01")
         ELSE IF dp /\ dateparser_parses(t) THEN Resolved("2025-01-01")
         ELSE Resolved("")

\* Lines 99-112.  (s or "") is s itself when s is truthy, whatever its type;
\* .strip() exists on strings only, and line 100 is inside no try.
norm_date(v, dp) ==
    IF Truthy(v) /\ v.kind # "str" THEN AttributeError
    ELSE LET t == IF Truthy(v) THEN nd_strip(v.text) ELSE "" IN
         IF \E i \in 1..Len(Formats) : Accepts(t, Formats[i])
         THEN Resolved("2025-01-01")
         ELSE IF dp /\ dateparser_parses(t) THEN Resolved("2025-01-01")
         ELSE Resolved("")

\* Lines 147-167, one article object of a JSON-LD block: its date goes
\* through norm_date and the item is appended; an exception of norm_date
\* leaves from_jsonld (only json.loads is inside the try of lines 144-147).
JsonldObject ==
    /\ jl_pc = "objects"
    /\ Len(jl_items) < MaxObjects
    /\ \E v \in JsonValues :
         /\ nd_arg' = v
         /\ nd_ret' = norm_date(v, dateparser)
         /\ IF nd_ret'.kind = "raised"
            THEN jl_pc' = "raised" /\ UNCHANGED jl_items
            ELSE jl_items' = Append(jl_items, nd_ret'.date) /\ UNCHANGED jl_pc
    /\ UNCHANGED <<dateparser, outside_jsonld>>

\* Lines 168-174: the objects are exhausted, the items are returned.
JsonldReturn ==
    /\ jl_pc = "objects"
    /\ jl_pc' = "returned"
    /\ UNCHANGED <<dateparser, jl_items, nd_arg, nd_ret, outside_jsonld>>

\* from_jsonld on any page, with dateparser installed or not (lines 34-37).
JsonldInit ==
    /\ ScrapeOff
    /\ SaveIdle
    /\ NpuIdle
    /\ ListingIdle
    /\ TelusIdle
    /\ BceIdle
    /\ MainIdle
    /\ CogecoIdle
    /\ PagingIdle
    /\ dateparser \in BOOLEAN
    /\ jl_pc = "objects"
    /\ jl_items = <<>>
    /\ nd_arg = [kind |-> "none", text |-> ""]
    /\ nd_ret = [kind |-> "none", date |-> ""]

JsonldNext ==
    \/ JsonldObject
    \/ JsonldReturn

SpecJsonld == JsonldInit /\ [][JsonldNext]_vars

\* ------------------------------- scrape_bce and the generic scraper, Bell
\* scrape_bce.py line 12.
COMPANY == "Bell"

\* slugify on the titles of BceEntries, and the link of lines 157-163 (the
\* page index is left out of it).
slugify(t) == IF t = "New CEO" THEN "New-CEO" ELSE "Q1-results"
bce_link(t) == "newsroom?article=" \o slugify(t)

\* What all_rows may hold: extract_latest_news and extract_news_archive
\* return entries of CUTOFF_YEAR or later only.
CurrentEntries == {e \in BceEntries : Year(e.date) >= CUTOFF_YEAR}

\* Lines 216-221: the first row of each (title, date).
RECURSIVE bce_unique_from(_, _)
bce_unique_from(seen, rows) ==
    IF rows = <<>> THEN <<>>
    ELSE IF BceKey(Head(rows)) \in seen
         THEN bce_unique_from(seen, Tail(rows))
         ELSE <<Head(rows)>> \o bce_unique_from(seen \cup {BceKey(Head(rows))}, Tail(rows))

bce_unique(rows) == bce_unique_from({}, rows)

\* load_master, line 61 of scrape_bce.py: the keys include the date.
existing_keys(m) == {<<m[i].company, m[i].title, m[i].date>> : i \in 1..Len(m)}

\* Lines 226-241: the rows whose (COMPANY, title, date) the master lacks.
bce_new_rows(all_rows, m) ==
    LET fresh == SelectSeq(bce_unique(all_rows),
                           LAMBDA e : <<COMPANY, e.title, e.date>> \notin existing_keys(m))
    IN [i \in 1..Len(fresh) |->
          [company |-> COMPANY, title |-> fresh[i].title,
           link |-> bce_link(fresh[i].title), date |-> fresh[i].date]]

\* One run of scrape_bce from load_master (line 178) to append_rows (line
\* 245) on the rows its pages gave; the run is left out once the master
\* would outgrow MaxMaster.
BceAppend ==
    /\ \E all_rows \in SeqUpTo(CurrentEntries, MaxEntries) :
         /\ Len(master) + Len(bce_new_rows(all_rows, master)) <= MaxMaster
         /\ master' = master \o bce_new_rows(all_rows, master)
    /\ UNCHANGED <<ret, dup_call, outside_save>>

\* One run of the generic scraper's save for the source "Bell" (line 654).
GenericBell == SaveRows(COMPANY)

BellNext ==
    \/ GenericBell
    \/ BceAppend

\* Runs of the two Bell scrapers on one master, in any order.
SpecBell == SaveInit /\ [][BellNext]_vars

\* ---------------------------------------------------------- scrape_cogeco
\* What parse_cogeco_page returns rows from: cards with a title and a
\* parsed date (lines 147-171 skip the others).
CogecoRows == {r \in Records : r.title # "" /\ r.date # ""}

\* Lines 175-183: the first row of each link.
RECURSIVE by_link_from(_, _)
by_link_from(seen, rows) ==
    IF rows = <<>> THEN <<>>
    ELSE IF Head(rows).link \in seen
         THEN by_link_from(seen, Tail(rows))
         ELSE <<Head(rows)>> \o by_link_from(seen \cup {Head(rows).link}, Tail(rows))

parse_cogeco_page(raw) == by_link_from({}, raw)

\* _http_get, lines 88-91: requests.get raises (status 0 here), or
\* raise_for_status raises on a 4xx / 5xx answer; else the text is returned.
cogeco_http_get(st) == IF st = 0 \/ st >= 400 THEN "raised" ELSE "text"

\* Lines 224-237 on one page's rows: the rows appended to out, and
\* existing_links afterwards.
RECURSIVE cogeco_keep(_, _, _)
cogeco_keep(rows, links, since_d) ==
    IF rows = <<>> THEN [out |-> <<>>, links |-> links]
    ELSE LET r == Head(rows) IN
         IF r.link \in links \/ strptime(r.date) < strptime(since_d)
         THEN cogeco_keep(Tail(rows), links, since_d)
         ELSE LET rest == cogeco_keep(Tail(rows), links \cup {r.link}, since_d)
              IN [out |-> <<r>> \o rest.out, links |-> rest.links]

\* Line 207: html = _http_get(url), inside no try block: an exception of
\* _http_get leaves scrape_cogeco, whatever the page.
CogecoFetch ==
    /\ cg_pc = "fetch"
    /\ \E st \in Statuses :
         /\ cg_status' = st
         /\ cg_pc' = IF cogeco_http_get(st) = "raised" THEN "raised" ELSE "parse"
    /\ UNCHANGED <<cg_since, cg_max_pages, cg_existing, cg_page, cg_out,
                   outside_cogeco>>

\* Lines 208-244 on a fetched page: stop on an empty page, keep the new
\* rows on or after since, stop when the oldest date is before since or
\* the range of pages is exhausted, else go to the next page.  A page other
\* than a 200 answer holds no card.
CogecoParse ==
    /\ cg_pc = "parse"
    /\ \E raw \in SeqUpTo(CogecoRows, IF cg_status = 200 THEN MaxItems ELSE 0) :
         LET rows == parse_cogeco_page(raw)
             kept == cogeco_keep(rows, cg_existing, cg_since)
             older == \E i \in 1..Len(rows) : strptime(rows[i].date) < strptime(cg_since)
         IN IF rows = <<>>
            THEN cg_pc' = "returned" /\ UNCHANGED <<cg_existing, cg_page, cg_out>>
            ELSE /\ cg_out' = cg_out \o kept.out
                 /\ cg_existing' = kept.links
                 /\ IF older \/ cg_page = cg_max_pages
                    THEN cg_pc' = "returned" /\ UNCHANGED cg_page
                    ELSE cg_pc' = "fetch" /\ cg_page' = cg_page + 1
    /\ UNCHANGED <<cg_since, cg_max_pages, cg_status, outside_cogeco>>

\* scrape_cogeco called with any arguments.
CogecoInit ==
    /\ ScrapeOff
    /\ SaveIdle
    /\ NpuIdle
    /\ ListingIdle
    /\ TelusIdle
    /\ BceIdle
    /\ MainIdle
    /\ JsonldIdle
    /\ PagingIdle
    /\ cg_since \in Cutoffs
    /\ cg_max_pages \in 1..MaxPages
    /\ cg_existing \in SUBSET Links
    /\ cg_pc = "fetch"
    /\ cg_page = 1
    /\ cg_status = 0
    /\ cg_out = <<>>

CogecoNext ==
    \/ CogecoFetch
    \/ CogecoParse

SpecCogeco == CogecoInit /\ [][CogecoNext]_vars

\* ------------------------- the URLs of one run on an offset-paged listing
\* The listing URLs with exactly one start parameter, a decimal number.
OffsetUrls ==
    {u \in ListUrls :
        /\ Cardinality({i \in 1..Len(u.query) : u.query[i].k = "start"}) = 1
        /\ \A i \in 1..Len(u.query) : u.query[i].k = "start" => u.query[i].v.num}

\* The offset a URL asks for: the number of its start parameter.
start_of(query) == GetQ(parse_qs(query), "start")[1].n

\* Line 583: url = list_url if p == 1 else next_page_url(list_url, p).
page_url(u, n) == IF n = 1 THEN Returned(u, u.query) ELSE next_page_url(u, n)

\* Lines 582-583, one pass of the loop: the URL of page p is built and
\* requested.
PageRequest ==
    /\ pg_p >= 1
    /\ pg_p <= MaxPageArg
    /\ pg_offsets' = Append(pg_offsets, start_of(page_url(pg_url, pg_p).query))
    /\ pg_p' = pg_p + 1
    /\ UNCHANGED <<pg_url, outside_paging>>

PagingInit ==
    /\ ScrapeOff
    /\ SaveIdle
    /\ NpuIdle
    /\ ListingIdle
    /\ TelusIdle
    /\ BceIdle
    /\ MainIdle
    /\ JsonldIdle
    /\ CogecoIdle
    /\ pg_url \in OffsetUrls
    /\ pg_p = 1
    /\ pg_offsets = <<>>

PagingNext == PageRequest

SpecPaging == PagingInit /\ [][PagingNext]_vars

\* ================================================================ claims
Min(S) == CHOOSE x \in S : \A y \in S : x <= y

\* C1 (as stated).  Once the items extracted from a fetched page include
\* one whose resolved date is earlier than the cutoff, no further listing
\* page is requested in that run.
C1_NoRequestAfterOld == [][old_seen => requested' = requested]_vars

C3_DatedOnOrAfterCutoff ==
    pc = "done" =>
        \A i \in 1..Len(result) :
            result[i].date # "" => strptime(result[i].date) >= strptime(cutoff)

C3_Witness ==
    /\ pc = "done"
    /\ old_seen
    /\ \E i \in 1..Len(result) : result[i].date # ""

\* res holds exactly one record per (title, link) of input: its first dated
\* record when it has one, else its first record.
IsDedupOf(input, res) ==
    /\ \A i \in 1..Len(input) : \E j \in 1..Len(res) : Key(res[j]) = Key(input[i])
    /\ \A j1, j2 \in 1..Len(res) : Key(res[j1]) = Key(res[j2]) => j1 = j2
    /\ \A j \in 1..Len(res) :
         LET idx == {i \in 1..Len(input) : Key(input[i]) = Key(res[j])}
             dated == {i \in idx : input[i].date # ""}
         IN /\ idx # {}
            /\ res[j] = input[Min(IF dated # {} THEN dated ELSE idx)]

\* C6.  The final dedup of scrape_press_releases and of scrape_with_selenium
\* returns exactly one record per distinct (title, link) of its input: the
\* first-encountered record with a resolved date if there is one, otherwise
\* the first-encountered record.
C6_DedupFirstDatedElseFirst ==
    pc = "done" =>
        /\ any_found => IsDedupOf(out, result)
        /\ (driver = "quit" /\ sel_ret = "returned" /\ ~calix) => IsDedupOf(sel_out, result)

C6_Witness ==
    /\ pc = "done"
    /\ any_found
    /\ Len(out) = 2
    /\ Key(out[1]) = Key(out[2])
    /\ out[1].date = ""
    /\ out[2].date # ""
    /\ result = <<out[2]>>

\* C7.  When strategies 1-3 all return nothing for page 1, the rendered
\* fallback is invoked exactly once and page 2 is never requested through
\* the direct path.
C7_EmptyPage1FallbackOnce ==
    empty1 =>
        /\ requested = <<1>>
        /\ sel_calls <= 1
        /\ pc = "done" => sel_calls = 1

C7_Witness == empty1 /\ pc = "done" /\ sel_calls = 1 /\ max_pages > 1

\* C8 (as stated).  If http_get raises for page 1, the run returns an empty
\* list.
C8_Page1FailureReturnsEmpty == (fail1 /\ pc = "done") => result = <<>>

\* C8 (amended).  If http_get raises for page 1, scrape_press_releases
\* raises no error, requests no further page and invokes the rendered
\* fallback exactly once; what it returns is what that fallback returned,
\* which is non-empty only when the rendered session returned rows.
C8_Page1FailureFallsBack ==
    fail1 =>
        /\ pc # "error"
        /\ requested = <<1>>
        /\ ~any_found
        /\ sel_calls <= 1
        /\ pc = "done" =>
             /\ sel_calls = 1
             /\ result # <<>> => (sel_ret = "returned" /\ driver = "quit")

C8_Witness == fail1 /\ pc = "done" /\ result # <<>>

\* C9 (as stated).  If the fetch of a page N > 1 fails, no error is raised,
\* no further page is requested, the rendered fallback is not invoked and
\* the deduplicated records of pages 1..N-1 are returned.
C9_LaterFailureEndsPagination ==
    failN =>
        /\ pc # "error"
        /\ Len(requested) = p
        /\ sel_calls = 0
        /\ pc = "done" => result = Dedup(out)

\* C10 (as stated).  http_get issues at most 3 GET requests for one URL and
\* either returns a status-200 response or raises: it never returns
\* normally without a response.
C10_HttpGetResponseOrRaise ==
    /\ tries < HTTP_TRIES
    /\ http_ret \in {"-", "response", "raised"}

\* C4 (as stated).  The master holds at most one row per (company, title)
\* after any sequence of save_to_master calls.
C4_MasterUniqueKeys ==
    \A i, j \in 1..Len(master) : MKey(master[i]) = MKey(master[j]) => i = j

KeyCount(m, k) == Cardinality({i \in 1..Len(m) : MKey(m[i]) = k})

\* C5.  A (company, title) pair that is already persisted gets no further
\* row from a later save_to_master call, and a call that brings only
\* persisted pairs leaves the master as it was.
C5_PersistedPairNotAppendedAgain ==
    [][/\ \A k \in MasterKeys(master) : KeyCount(master', k) = KeyCount(master, k)
       /\ MasterKeys(master') = MasterKeys(master) => master' = master]_vars

C5_Witness == dup_call /\ Len(master) = 1 /\ ret = 0

\* The order line 564 names and lines 591-595 follow.
StrategyOrder == <<"feed", "jsonld", "html">>

\* C11.  On every listing page the strategies run in the order feed,
\* embedded metadata, heuristic markup; no strategy runs after one that
\* returned a non-empty list; and the items the page contributes (here: what
\* the cutoff filter appends to out) are the result of the first strategy
\* that returned a non-empty list, nothing being appended when all three
\* returned nothing.
C11_CascadeFirstNonEmptyWins ==
    [][(cascade' # cascade /\ cascade' # <<>>) =>
         LET c == cascade'
             n == Len(cascade')
         IN /\ n <= 3
            /\ \A i \in 1..n : c[i].s = StrategyOrder[i]
            /\ \A i \in 1..(n - 1) : c[i].items = <<>>
            /\ c[n].items # <<>> =>
                 /\ pc' \in {"loop", "after"}
                 /\ any_found'
                 /\ out' = out \o keep_only_newer(c[n].items, cutoff)
            /\ c[n].items = <<>> =>
                 /\ out' = out
                 /\ pc' = IF n < 3 THEN StrategyOrder[n + 1] ELSE "after"]_vars

C11_Witness ==
    /\ Len(cascade) = 2
    /\ cascade[1].items = <<>>
    /\ cascade[2].items # <<>>
    /\ pc = "loop"
    /\ out # <<>>

PageNumberKeys == {"page", "Page", "p"}

HasParam(query, k) == \E i \in 1..Len(query) : query[i].k = k

\* The pairs of a query string with key k, and those with another key, in
\* the order of the query string.
WithKey(query, k) == SelectSeq(query, LAMBDA kv : kv.k = k)

WithoutKey(query, k) == SelectSeq(query, LAMBDA kv : kv.k # k)

\* C12 (as stated).  For a listing URL with a page-number parameter (page,
\* Page or p) and no start parameter, next_page_url(url, n) returns a URL in
\* which that parameter equals n, every other query parameter (each key and
\* each of its values, repeated keys and blank values included) and every
\* other URL component are unchanged, and a second call with the same
\* inputs returns the same URL.
C12_PageParamSetOthersUnchanged ==
    (/\ npu_calls >= 1
     /\ \E k \in PageNumberKeys : HasParam(list_url.query, k)
     /\ ~HasParam(list_url.query, "start")) =>
        /\ npu_ret.kind = "url"
        /\ npu_ret.base = list_url.base
        /\ npu_ret.fragment = list_url.fragment
        /\ \E k \in PageNumberKeys :
             /\ HasParam(list_url.query, k)
             /\ HasParam(npu_ret.query, k)
             /\ \A i \in 1..Len(npu_ret.query) :
                  npu_ret.query[i].k = k => npu_ret.query[i].v = Num(page)
             /\ WithoutKey(npu_ret.query, k) = WithoutKey(list_url.query, k)
        /\ npu_calls = 2 => npu_ret = npu_prev

\* C13 (as stated).  For a listing URL that carries start=s,
\* next_page_url(url, n) returns a URL whose start is n times the step, the
\* step being s when s is a non-zero integer and 16 otherwise, and it
\* leaves the page-number parameters as they were.
C13_StartTimesStep ==
    (npu_calls >= 1 /\ HasParam(list_url.query, "start")) =>
        LET s == WithKey(list_url.query, "start")[1].v
            step == IF s.num /\ s.n # 0 THEN s.n ELSE DEFAULT_STEP
        IN /\ npu_ret.kind = "url"
           /\ HasParam(npu_ret.query, "start")
           /\ \A i \in 1..Len(npu_ret.query) :
                /\ npu_ret.query[i].k = "start" => npu_ret.query[i].v = Num(page * step)
                /\ npu_ret.query[i].k \in PageNumberKeys =>
                     \E j \in 1..Len(list_url.query) : list_url.query[j] = npu_ret.query[i]

\* C14.  Every rendered-mode fetch releases its browser session: once
\* scrape_with_selenium is over (normal return, Calix early return, or an
\* exception while navigating or extracting), once the Rogers / Videotron
\* loader is over, and once scrape_telus has left its try block, no session
\* that was created is still open.
C14_SessionReleased ==
    /\ pc \in {"done", "error"} => driver # "open"
    /\ lm_pc \in {"get", "parse", "returned", "aborted"} => lm_driver # "open"
    /\ tel_pc \in {"returned", "raised"} => tel_driver # "open"

C14_Witness ==
    /\ pc = "done"
    /\ calix
    /\ sel_ret = "raised"
    /\ driver = "quit"

\* C15.  The Rogers and Videotron load-more loops end, after at most
\* max_clicks clicks, and an iteration clicks only when the number of
\* listing links grew since the previous iteration (or it is the first
\* one), no visible date is before the cutoff and a load-more control was
\* found.
C15_LoadMoreBoundedClicks ==
    /\ [](/\ lm_clicks <= lm_max_clicks
          /\ lm_i <= lm_max_clicks
          /\ lm_obs.clicked => (lm_obs.grew /\ ~lm_obs.old /\ lm_obs.control))
    /\ <>(lm_pc \notin {"start", "open", "loop"})

C15_Witness ==
    /\ lm_pc = "parse"
    /\ lm_clicks >= 1
    /\ lm_clicks < lm_max_clicks
    /\ ~lm_obs.grew
    /\ ~lm_obs.clicked

FailedGet(st) == st = 0 \/ (st >= 400 /\ st < 600)

\* C16.  When the rendered-mode loader raises in scrape_rogers or
\* scrape_videotron, the exception does not end the run: the listing is
\* fetched with one direct GET, and the run goes on to parse and filter
\* what that GET returned; it ends with an error only when that GET fails
\* itself.
C16_LoaderFailureFallsBackToGet ==
    lm_raised =>
        /\ lm_pc \in {"get", "parse", "returned", "aborted"}
        /\ lm_gets = IF lm_pc = "get" THEN 0 ELSE 1
        /\ lm_pc = "aborted" => FailedGet(lm_status)
        /\ lm_pc \in {"parse", "returned"} => ~FailedGet(lm_status)

C16_Witness ==
    /\ lm_raised
    /\ lm_pc = "returned"
    /\ lm_status = 200
    /\ results # <<>>

\* C17 (as stated).  The pagination loop of scrape_bce ends for every
\* sequence of site responses, also when every page answers 200 with rows
\* of the cutoff year and none older.
C17_BcePaginationEnds == <>(bce_pc \in {"done", "error"})

\* Strategies 1-3 have all run on the page and returned nothing.
AllEmpty(c) == Len(c) = 3 /\ \A i \in 1..3 : c[i].items = <<>>

\* C18.  The direct path requests pages 1, 2, ... in order, each once and
\* never more than max_pages of them, and requests no page after one for
\* which all three strategies returned nothing.
C18_AtMostMaxPagesStopAtEmpty ==
    [][requested' # requested =>
         /\ requested' = Append(requested, Len(requested) + 1)
         /\ Len(requested') <= max_pages
         /\ ~AllEmpty(cascade)]_vars

C18_Witness ==
    /\ pc = "after"
    /\ AllEmpty(cascade)
    /\ requested = <<1>>
    /\ requested[1] = p
    /\ p < max_pages

\* C19 (as stated).  Every record scrape_press_releases returns has a
\* non-empty title, whichever strategy produced it.
C19_TitlesNonEmpty ==
    pc = "done" => \A i \in 1..Len(result) : result[i].title # ""

\* C20 (as stated).  No error while one source is processed ends the run
\* before the sources that follow it have been scraped and saved, whatever
\* the fetches of that source come back with.
C20_ErrorDoesNotAbortLaterSources ==
    pc = "error" => \A i \in (src + 1)..Len(sources) : sources[i] \in saved

\* C21.  save_to_master is append-only: every row the master holds before a
\* call is still there after it, with the same field values and at the same
\* position, so the old master is a prefix of the new one.
C21_AppendOnly ==
    [][/\ Len(master') >= Len(master)
       /\ SubSeq(master', 1, Len(master)) = master]_vars

\* A later call has appended a row of another company behind an older row.
C21_Witness ==
    /\ Len(master) = 2
    /\ master[1].company # master[2].company

\* C30 (as stated).  The count save_to_master returns is the number of rows
\* by which the master grew during that call.
C30_ReturnedCountIsGrowth ==
    [][ret' = Len(master') - Len(master)]_vars

\* C22 (as stated).  norm_date never raises: for every value the extraction
\* strategies hand to it, the call returns a canonical date or the
\* unresolved value "".
C22_NormDateNeverRaises == nd_ret.kind # "raised"

\* C23 (as stated).  _scrape_calix_load_more performs at most max_clicks
\* Load-more clicks in one run: the click counter never exceeds the budget.
C23_ClicksWithinBudget == calix => clicks <= max_clicks

\* C24 (as stated).  The URL-embedded year sets stop only when it is earlier
\* than the year of the cutoff passed in: once stop is set, some collected
\* item has a date before the cutoff or a link year before the cutoff year.
C24_UrlYearStopUsesCutoffYear ==
    (calix /\ stop) =>
        \E i \in 1..Len(all_items) :
            \/ IsOld(all_items[i], cutoff)
            \/ /\ LinkYear(all_items[i].link) # 0
               /\ LinkYear(all_items[i].link) < Year(cutoff)

\* C28 (as stated).  Whenever the Calix loop reads the page source or looks
\* for the Load-more control, the browser is on the listing URL.
C28_BrowserStaysOnListing == ~off_listing

\* C25 (as stated).  For every page scrape_bce fetches, every News-archive
\* entry dated in CUTOFF_YEAR or later is among that page's rows, whatever
\* its position relative to older entries on the page.
C25_ArchiveKeepsEveryCurrentEntry ==
    \A i \in 1..Len(bce_archive) :
        Year(bce_archive[i].date) >= CUTOFF_YEAR =>
            \E j \in 1..Len(bce_rows) : bce_rows[j] = bce_archive[i]

\* C26 (as stated).  Under any sequence of runs of the generic scraper for
\* Bell and of scrape_bce on one master, the master never holds two rows
\* with the same (company, title).
C26_BellScrapersShareKey ==
    \A i, j \in 1..Len(master) : MKey(master[i]) = MKey(master[j]) => i = j

\* C27 (as stated).  In scrape_cogeco a fetch failure on a page N > 1 ends
\* pagination gracefully: no error is raised and the rows kept from pages
\* 1..N-1 are returned.
C27_CogecoLaterPageFailureIsGraceful ==
    (cg_page > 1 /\ cogeco_http_get(cg_status) = "raised") => cg_pc = "returned"

\* C29 (as stated).  For a listing URL with start=s, the offsets requested
\* for pages 1, 2, 3, ... increase by exactly one step between consecutive
\* pages, the step being s when s is not zero and 16 otherwise, for every
\* s >= 0.
C29_OffsetsAdvanceByOneStep ==
    LET s == start_of(pg_url.query)
        step == IF s # 0 THEN s ELSE DEFAULT_STEP
    IN \A i \in 1..(Len(pg_offsets) - 1) : pg_offsets[i + 1] = pg_offsets[i] + step

=============================================================================
